---------------------------- MODULE Spec2Model ----------------------------
(***************************************************************************)
(* A model of the ROM library scripts: the name normaliser and the game    *)
(* resolver of rom_downloader.py, its platform mapping, its per-game       *)
(* download pool, and the JSON importer of convert_to_sqlite.py.           *)
(*                                                                         *)
(* A string is a sequence of characters; a character is a one-element      *)
(* TLA+ string (a character that TLA+ cannot write in a string is named by *)
(* its code point, as in "U+00A9").                                        *)
(***************************************************************************)
EXTENDS Integers, Sequences, FiniteSets, TLC

(***************************************************************************)
(* The state: the record store (the tables of games.db), the file tree     *)
(* asset and the mapping built from it, the position of run and its        *)
(* per-game worker pool, the source and progress of import_data, and the   *)
(* arguments and results of the functions specified on their own.          *)
(***************************************************************************)
VARIABLES
  systems,          \* table systems: rows [id, name, alias] in id order
  games,            \* table games: rows [id, game_title, platform] in id order
  game_artwork,     \* table game_artwork: rows [id, game_id, type, filename] in id order
  game_developers,  \* table game_developers: set of <<game_id, developer_id>>
  game_genres,      \* table game_genres: set of <<game_id, genre_id>>
  game_publishers,  \* table game_publishers: set of <<game_id, publisher_id>>
  game_alternates,  \* table game_alternates: set of <<game_id, alternate_title>>
  cores_data,       \* ROMDownloader.cores_data: systems [name, children]
  system_mapping,   \* ROMDownloader.system_mapping: canonical name -> system id
  warned,           \* names for which 'No mapping found' was printed
  pc,               \* where the program stands
  sys_i,            \* run: index of the system being processed
  child_i,          \* run: index of the child being processed
  pool,             \* the tasks of the current game's ThreadPoolExecutor
  files,            \* the files under ROMs/: path -> what was written
  normalized,       \* every result clean_game_name has returned, per filename
  looked_up,        \* run: the <<system, child>> passed to find_game_in_db
  rested,           \* run: the <<system, child>> followed by time.sleep(0.1)
  raw,              \* the filename argument of the function called
  system_id,        \* the platform argument of find_game_in_db
  cleaned,          \* the result of clean_game_name(raw)
  found,            \* the result of find_game_in_db(raw, system_id)
  data,             \* import_data: the parsed JSON source
  runs,             \* import_data: how many times it has run
  raised,           \* import_data: whether the last run ended in an exception
  first_run         \* the join tables as the first import_data left them

storeVars  == <<systems, games, game_artwork, game_developers, game_genres,
                game_publishers, game_alternates>>
mapVars    == <<cores_data, system_mapping, warned>>
runVars    == <<sys_i, child_i, pool, files, normalized, looked_up, rested>>
callVars   == <<raw, system_id, cleaned, found>>
importVars == <<data, runs, raised, first_run>>
vars == <<storeVars, mapVars, runVars, callVars, importVars, pc>>

\* Python's None where a row is expected (fetchone(), dict.get): no row has
\* this field.
None == [none |-> TRUE]

\* SQL's NULL, and Python's None, where a string is expected: a value equal to
\* no string.
NULL == <<"NULL">>

(***************************************************************************)
(* Characters and the string primitives of Python and SQLite that the      *)
(* scripts use.                                                            *)
(***************************************************************************)

\* The characters in code point order: ASCII 32..126, then U+00A9, U+221A.
CodePoints ==
  <<" ", "!", "U+0022", "#", "$", "%", "&", "'", "(", ")", "*", "+",
     ",", "-", ".", "/", "0", "1", "2", "3", "4", "5", "6", "7",
     "8", "9", ":", ";", "<", "=", ">", "?", "@", "A", "B", "C",
     "D", "E", "F", "G", "H", "I", "J", "K", "L", "M", "N", "O",
     "P", "Q", "R", "S", "T", "U", "V", "W", "X", "Y", "Z", "[",
     "U+005C", "]", "^", "_", "U+0060", "a", "b", "c", "d", "e", "f", "g",
     "h", "i", "j", "k", "l", "m", "n", "o", "p", "q", "r", "s",
     "t", "u", "v", "w", "x", "y", "z", "{", "|", "}", "~", "U+00A9",
     "U+221A">>

Chars == {CodePoints[i] : i \in 1..Len(CodePoints)}

\* The rank of a character in code point order (Python compares strings by it).
Ord == [c \in Chars |-> CHOOSE i \in 1..Len(CodePoints) : CodePoints[i] = c]

\* [A-Z] and [a-z].
UpperLetters == {c \in Chars : Ord[c] \in Ord["A"]..Ord["Z"]}

LowerLetters == {c \in Chars : Ord[c] \in Ord["a"]..Ord["z"]}

IsUpper(c) == c \in UpperLetters

IsLower(c) == c \in LowerLetters

\* str.lower() and SQLite's LOWER() on one character: both fold A-Z only
\* among the characters above.
LowerChar(c) == IF IsUpper(c) THEN CodePoints[Ord[c] + (Ord["a"] - Ord["A"])] ELSE c

Lower(s) == [i \in 1..Len(s) |-> LowerChar(s[i])]

\* The characters \s and str.split() treat as whitespace.
WhiteSpace == {" ", "\t", "\n", "\r", "\f"}

\* The separator of os.path on the platforms the scripts run on.
PathSep == "/"

\* sub occurs in s at position i.
OccursAt(s, sub, i) ==
  /\ i >= 1
  /\ i + Len(sub) - 1 <= Len(s)
  /\ \A k \in 1..Len(sub) : s[i + k - 1] = sub[k]

\* `sub in s' for strings.
Contains(s, sub) == \E i \in 1..(Len(s) - Len(sub) + 1) : OccursAt(s, sub, i)

\* The last position of character c in s, 0 when there is none (str.rfind + 1).
RFind(s, c) ==
  LET at == {i \in 1..Len(s) : s[i] = c}
  IN  IF at = {} THEN 0 ELSE CHOOSE i \in at : \A j \in at : j <= i

\* str.replace(old, new): every non-overlapping occurrence, left to right;
\* the text inserted is not scanned again.
RECURSIVE ReplaceFrom(_, _, _, _)
ReplaceFrom(s, old, new, i) ==
  IF i > Len(s) THEN <<>>
  ELSE IF Len(old) > 0 /\ OccursAt(s, old, i)
       THEN new \o ReplaceFrom(s, old, new, i + Len(old))
       ELSE <<s[i]>> \o ReplaceFrom(s, old, new, i + 1)

Replace(s, old, new) == IF Contains(s, old) THEN ReplaceFrom(s, old, new, 1) ELSE s

\* ' '.join(s.split()): runs of whitespace become one space, none at the ends.
RECURSIVE JoinSplitFrom(_, _, _)
JoinSplitFrom(s, i, pending) ==
  IF i > Len(s) THEN <<>>
  ELSE IF s[i] \in WhiteSpace THEN JoinSplitFrom(s, i + 1, pending)
  ELSE (IF pending /\ i > 1 /\ s[i - 1] \in WhiteSpace THEN <<" ">> ELSE <<>>)
        \o <<s[i]>> \o JoinSplitFrom(s, i + 1, TRUE)

JoinSplit(s) == JoinSplitFrom(s, 1, FALSE)

\* str.strip().
Strip(s) ==
  LET ink == {i \in 1..Len(s) : s[i] \notin WhiteSpace}
  IN  IF ink = {} THEN <<>>
      ELSE SubSeq(s, CHOOSE i \in ink : \A j \in ink : i <= j,
                     CHOOSE i \in ink : \A j \in ink : j <= i)

(***************************************************************************)
(* The name normaliser, ROMDownloader.clean_game_name.                      *)
(***************************************************************************)

\* os.path.splitext(p)[0]: cut at the last dot of the last path component,
\* unless only dots precede it there.
splitext_root(p) ==
  LET sepIndex == RFind(p, PathSep)
      dotIndex == RFind(p, ".")
  IN  IF /\ dotIndex > sepIndex
         /\ \E k \in (sepIndex + 1)..(dotIndex - 1) : p[k] # "."
      THEN SubSeq(p, 1, dotIndex - 1)
      ELSE p

\* s from position i on is \s*\([^)]*\)\s*$ : whitespace, one "(", text with
\* no ")" in it, one ")", whitespace to the end.
TrailingParenAt(s, i) ==
  \E open \in i..Len(s) :
    /\ s[open] = "("
    /\ \A k \in i..(open - 1) : s[k] \in WhiteSpace
    /\ \E close \in (open + 1)..Len(s) :
         /\ s[close] = ")"
         /\ \A k \in (open + 1)..(close - 1) : s[k] # ")"
         /\ \A k \in (close + 1)..Len(s) : s[k] \in WhiteSpace

\* re.sub(r'\s*\([^)]*\)\s*$', '', s): the leftmost match is removed, and it
\* reaches the end of s, so there is no second one.
strip_trailing_paren(s) ==
  LET starts == {i \in 1..Len(s) : TrailingParenAt(s, i)}
  IN  IF starts = {} THEN s
      ELSE SubSeq(s, 1, (CHOOSE i \in starts : \A j \in starts : i <= j) - 1)

\* re.sub(r'([a-z])([A-Z])', r'\1 \2', s): a space between a lower case letter
\* and the upper case letter after it (two matches never overlap).
RECURSIVE SplitCamelFrom(_, _)
SplitCamelFrom(s, i) ==
  IF i > Len(s) THEN <<>>
  ELSE IF i < Len(s) /\ IsLower(s[i]) /\ IsUpper(s[i + 1])
       THEN <<s[i], " ">> \o SplitCamelFrom(s, i + 1)
       ELSE <<s[i]>> \o SplitCamelFrom(s, i + 1)

split_camel_case(s) == SplitCamelFrom(s, 1)

\* The denylist of platform-specific suffixes, in list order.
suffixes ==
  <<<<"-", "l", "a", "t", "e", "s", "t">>,
     <<"b", "y", " ", "M", "o", "o", "g", "l", "y", "G", "u", "y", " ", "(", "P", "D", ")">>,
     <<"_", "W", "i", "n", "6", "4">>,
     <<"(", "N", "i", "n", "t", "e", "n", "d", "o", ",", " ", "W", "i", "d", "e", " ", "S", "c", "r", "e", "e", "n", ")">>,
     <<"(", "V", "T", "e", "c", "h", ",", " ", "T", "i", "m", "e", " ", "&", " ", "F", "u", "n", ")">>,
     <<"(", "G", "a", "k", "k", "e", "n", ",", " ", "L", "C", "D", " ", "C", "a", "r", "d", " ", "G", "a", "m", "e", ")">>,
     <<"(", "T", "o", "m", "y", "t", "r", "o", "n", "i", "c", ")">>,
     <<"(", "N", "i", "n", "t", "e", "n", "d", "o", ",", " ", "P", "a", "n", "o", "r", "a", "m", "a", " ", "S", "c", "r", "e", "e", "n", ")">>,
     <<"(", "N", "i", "n", "t", "e", "n", "d", "o", ",", " ", "T", "a", "b", "l", "e", " ", "T", "o", "p", ")">>,
     <<"(", "M", "a", "t", "t", "e", "l", " ", "E", "l", "e", "c", "t", "r", "o", "n", "i", "c", "s", ")">>,
     <<"(", "V", "T", "e", "c", "h", ",", " ", "E", "l", "e", "c", "t", "r", "o", "n", "i", "c", " ", "T", "i", "n", "i", "-", "A", "r", "c", "a", "d", "e", ")">>,
     <<"(", "V", "T", "e", "c", "h", ",", " ", "S", "p", "o", "r", "t", "y", " ", "T", "i", "m", "e", " ", "&", " ", "F", "u", "n", ")">>,
     <<"(", "V", "T", "e", "c", "h", ",", " ", "E", "x", "p", "l", "o", "r", "e", "r", " ", "T", "i", "m", "e", " ", "&", " ", "F", "u", "n", ")">>,
     <<"(", "B", "a", "n", "d", "a", "i", ",", " ", "L", "S", "I", " ", "G", "a", "m", "e", " ", "D", "o", "u", "b", "l", "e", " ", "P", "l", "a", "y", ")">>>>

\* for suffix in suffixes: name = name.replace(suffix, '')
RECURSIVE RemoveSuffixes(_, _)
RemoveSuffixes(s, k) ==
  IF k > Len(suffixes) THEN s
  ELSE CHOOSE result \in {RemoveSuffixes(name, k + 1) :
                            name \in {Replace(s, suffixes[k], <<>>)}} : TRUE

remove_suffixes(s) == RemoveSuffixes(s, 1)

\* A normaliser that reads the downloader's state: once artwork has been
\* written it keeps the trailing group.
clean_game_name_after_download(name) ==
  LET stem     == splitext_root(name)
      noParen  == IF files = <<>> THEN strip_trailing_paren(stem) ELSE stem
      spaced   == Replace(noParen, <<"_">>, <<" ">>)
      camel    == split_camel_case(spaced)
      noSuffix == remove_suffixes(camel)
  IN  Strip(JoinSplit(noSuffix))

\* A normaliser without the first two steps: the extension and the trailing
\* group stay.
clean_game_name_keeps_stem(name) ==
  Strip(JoinSplit(remove_suffixes(split_camel_case(Replace(name, <<"_">>, <<" ">>)))))

\* Each step's value is computed once and handed to the next step.
clean_game_name(name) ==
  LET stem     == {splitext_root(name)}
      noParen  == {strip_trailing_paren(n) : n \in stem}
      spaced   == {Replace(n, <<"_">>, <<" ">>) : n \in noParen}
      camel    == {split_camel_case(n) : n \in spaced}
      noSuffix == {remove_suffixes(n) : n \in camel}
      joined   == {JoinSplit(n) : n \in noSuffix}
  IN  CHOOSE result \in {Strip(n) : n \in joined} : TRUE

(***************************************************************************)
(* The game resolver, ROMDownloader.find_game_in_db.                       *)
(***************************************************************************)

\* SQLite's LIKE: % matches any run of characters, _ any one character, and
\* any other character matches itself without regard to ASCII case.
RECURSIVE LikeFrom(_, _, _, _)
LikeFrom(pattern, i, text, j) ==
  IF i > Len(pattern) THEN j > Len(text)
  ELSE IF pattern[i] = "%"
       THEN \E k \in j..(Len(text) + 1) : LikeFrom(pattern, i + 1, text, k)
  ELSE IF pattern[i] = "_"
       THEN j <= Len(text) /\ LikeFrom(pattern, i + 1, text, j + 1)
  ELSE /\ j <= Len(text)
       /\ LowerChar(pattern[i]) = LowerChar(text[j])
       /\ LikeFrom(pattern, i + 1, text, j + 1)

Like(text, pattern) == LikeFrom(pattern, 1, text, 1)

\* cursor.fetchone() of a SELECT over games of which the rows at the
\* positions hits pass the WHERE clause: the rows come in rowid order (the
\* scan of idx_games_platform), the first one is returned, None when there
\* is none.
fetchone_game(hits) ==
  IF hits = {} THEN None
  ELSE games[CHOOSE k \in hits : \A m \in hits : k <= m]

\* find_game_in_db with its two queries in the other order.
find_game_in_db_like_first(game_name, platform) ==
  LET clean_name == clean_game_name(game_name)
      Exact(title) == Lower(title) = Lower(clean_name)
      Fuzzy(title) == Like(Lower(title), Lower(<<"%">> \o clean_name \o <<"%">>))
      exact == {k \in 1..Len(games) :
                  games[k].platform = platform /\ Exact(games[k].game_title)}
      fuzzy == {k \in 1..Len(games) :
                  games[k].platform = platform /\ Fuzzy(games[k].game_title)}
      result == fetchone_game(fuzzy)
  IN  IF result # None THEN result ELSE fetchone_game(exact)

find_game_in_db(game_name, platform) ==
  CHOOSE row \in
    {LET Exact(title) == Lower(title) = Lower(clean_name)
         Fuzzy(title) == \E pattern \in {Lower(<<"%">> \o clean_name \o <<"%">>)} :
                           Like(Lower(title), pattern)
         exact == {k \in 1..Len(games) :
                     games[k].platform = platform /\ Exact(games[k].game_title)}
         fuzzy == {k \in 1..Len(games) :
                     games[k].platform = platform /\ Fuzzy(games[k].game_title)}
         result == fetchone_game(exact)
     IN  IF result # None THEN result ELSE fetchone_game(fuzzy) :
     clean_name \in {clean_game_name(game_name)}} : TRUE

(***************************************************************************)
(* The platform mapping, ROMDownloader.get_system_mapping, and the part of *)
(* difflib it calls.                                                       *)
(***************************************************************************)

\* The static alias table: canonical system name -> acceptable strings.
name_variations ==
  <<[name |-> <<"A", "r", "c", "a", "d", "e">>,
      variations |-> <<<<"A", "r", "c", "a", "d", "e">>,
                      <<"a", "r", "c", "a", "d", "e">>>>],
     [name |-> <<"E", "a", "s", "y", "R", "P", "G">>,
      variations |-> <<<<"R", "P", "G", " ", "M", "a", "k", "e", "r">>,
                      <<"r", "p", "g", "-", "m", "a", "k", "e", "r">>>>],
     [name |-> <<"N", "E", "C", " ", "-", " ", "P", "C", " ", "E", "n", "g", "i", "n", "e", " ", "-", " ", "T", "u", "r", "b", "o", "G", "r", "a", "f", "x", " ", "1", "6">>,
      variations |-> <<<<"T", "u", "r", "b", "o", "G", "r", "a", "f", "x", " ", "1", "6">>,
                      <<"t", "u", "r", "b", "o", "g", "r", "a", "f", "x", "-", "1", "6">>>>],
     [name |-> <<"N", "i", "n", "t", "e", "n", "d", "o", " ", "-", " ", "N", "i", "n", "t", "e", "n", "d", "o", " ", "6", "4">>,
      variations |-> <<<<"N", "i", "n", "t", "e", "n", "d", "o", " ", "6", "4">>,
                      <<"n", "i", "n", "t", "e", "n", "d", "o", "-", "6", "4">>>>],
     [name |-> <<"N", "i", "n", "t", "e", "n", "d", "o", " ", "-", " ", "V", "i", "r", "t", "u", "a", "l", " ", "B", "o", "y">>,
      variations |-> <<<<"N", "i", "n", "t", "e", "n", "d", "o", " ", "V", "i", "r", "t", "u", "a", "l", " ", "B", "o", "y">>,
                      <<"n", "i", "n", "t", "e", "n", "d", "o", "-", "v", "i", "r", "t", "u", "a", "l", "-", "b", "o", "y">>>>],
     [name |-> <<"N", "i", "n", "t", "e", "n", "d", "o", " ", "-", " ", "G", "a", "m", "e", "B", "o", "y">>,
      variations |-> <<<<"N", "i", "n", "t", "e", "n", "d", "o", " ", "G", "a", "m", "e", " ", "B", "o", "y">>,
                      <<"n", "i", "n", "t", "e", "n", "d", "o", "-", "g", "a", "m", "e", "b", "o", "y">>>>],
     [name |-> <<"N", "i", "n", "t", "e", "n", "d", "o", " ", "-", " ", "G", "a", "m", "e", "B", "o", "y", " ", "A", "d", "v", "a", "n", "c", "e">>,
      variations |-> <<<<"N", "i", "n", "t", "e", "n", "d", "o", " ", "G", "a", "m", "e", " ", "B", "o", "y", " ", "A", "d", "v", "a", "n", "c", "e">>,
                      <<"n", "i", "n", "t", "e", "n", "d", "o", "-", "g", "a", "m", "e", "b", "o", "y", "-", "a", "d", "v", "a", "n", "c", "e">>>>],
     [name |-> <<"N", "i", "n", "t", "e", "n", "d", "o", " ", "-", " ", "N", "i", "n", "t", "e", "n", "d", "o", " ", "E", "n", "t", "e", "r", "t", "a", "i", "n", "m", "e", "n", "t", " ", "S", "y", "s", "t", "e", "m">>,
      variations |-> <<<<"N", "i", "n", "t", "e", "n", "d", "o", " ", "E", "n", "t", "e", "r", "t", "a", "i", "n", "m", "e", "n", "t", " ", "S", "y", "s", "t", "e", "m", " ", "(", "N", "E", "S", ")">>,
                      <<"n", "e", "s">>>>],
     [name |-> <<"N", "i", "n", "t", "e", "n", "d", "o", " ", "-", " ", "S", "u", "p", "e", "r", " ", "N", "i", "n", "t", "e", "n", "d", "o", " ", "E", "n", "t", "e", "r", "t", "a", "i", "n", "m", "e", "n", "t", " ", "S", "y", "s", "t", "e", "m">>,
      variations |-> <<<<"S", "u", "p", "e", "r", " ", "N", "i", "n", "t", "e", "n", "d", "o", " ", "E", "n", "t", "e", "r", "t", "a", "i", "n", "m", "e", "n", "t", " ", "S", "y", "s", "t", "e", "m", " ", "(", "S", "N", "E", "S", ")">>,
                      <<"s", "n", "e", "s">>>>],
     [name |-> <<"N", "i", "n", "t", "e", "n", "d", "o", " ", "-", " ", "G", "a", "m", "e", "C", "u", "b", "e", " ", "-", " ", "W", "i", "i">>,
      variations |-> <<<<"N", "i", "n", "t", "e", "n", "d", "o", " ", "G", "a", "m", "e", "C", "u", "b", "e">>,
                      <<"g", "a", "m", "e", "c", "u", "b", "e">>>>],
     [name |-> <<"N", "i", "n", "t", "e", "n", "d", "o", " ", "-", " ", "N", "i", "n", "t", "e", "n", "d", "o", " ", "3", "D", "S">>,
      variations |-> <<<<"N", "i", "n", "t", "e", "n", "d", "o", " ", "3", "D", "S">>,
                      <<"n", "i", "n", "t", "e", "n", "d", "o", "-", "3", "d", "s">>>>],
     [name |-> <<"N", "i", "n", "t", "e", "n", "d", "o", " ", "-", " ", "P", "o", "k", "e", "m", "o", "n", " ", "M", "i", "n", "i">>,
      variations |-> <<<<"N", "i", "n", "t", "e", "n", "d", "o", " ", "P", "o", "k", "U+221A", "U+00A9", "m", "o", "n", " ", "M", "i", "n", "i">>,
                      <<"p", "o", "k", "e", "m", "o", "n", "-", "m", "i", "n", "i">>>>],
     [name |-> <<"S", "e", "g", "a", " ", "-", " ", "M", "a", "s", "t", "e", "r", " ", "S", "y", "s", "t", "e", "m", " ", "-", " ", "M", "a", "r", "k", " ", "I", "I", "I">>,
      variations |-> <<<<"S", "e", "g", "a", " ", "M", "a", "s", "t", "e", "r", " ", "S", "y", "s", "t", "e", "m">>,
                      <<"m", "a", "s", "t", "e", "r", "-", "s", "y", "s", "t", "e", "m">>>>],
     [name |-> <<"S", "e", "g", "a", " ", "-", " ", "M", "e", "g", "a", " ", "D", "r", "i", "v", "e", " ", "-", " ", "G", "e", "n", "e", "s", "i", "s">>,
      variations |-> <<<<"S", "e", "g", "a", " ", "M", "e", "g", "a", " ", "D", "r", "i", "v", "e">>,
                      <<"g", "e", "n", "e", "s", "i", "s">>>>],
     [name |-> <<"S", "e", "g", "a", " ", "-", " ", "G", "a", "m", "e", " ", "G", "e", "a", "r">>,
      variations |-> <<<<"S", "e", "g", "a", " ", "G", "a", "m", "e", " ", "G", "e", "a", "r">>,
                      <<"g", "a", "m", "e", "-", "g", "e", "a", "r">>>>],
     [name |-> <<"S", "e", "g", "a", " ", "-", " ", "S", "a", "t", "u", "r", "n">>,
      variations |-> <<<<"S", "e", "g", "a", " ", "S", "a", "t", "u", "r", "n">>,
                      <<"s", "a", "t", "u", "r", "n">>>>],
     [name |-> <<"S", "e", "g", "a", " ", "-", " ", "D", "r", "e", "a", "m", "c", "a", "s", "t">>,
      variations |-> <<<<"S", "e", "g", "a", " ", "D", "r", "e", "a", "m", "c", "a", "s", "t">>,
                      <<"d", "r", "e", "a", "m", "c", "a", "s", "t">>>>],
     [name |-> <<"S", "o", "n", "y", " ", "-", " ", "P", "l", "a", "y", "S", "t", "a", "t", "i", "o", "n">>,
      variations |-> <<<<"S", "o", "n", "y", " ", "P", "l", "a", "y", "s", "t", "a", "t", "i", "o", "n">>,
                      <<"p", "l", "a", "y", "s", "t", "a", "t", "i", "o", "n">>>>],
     [name |-> <<"S", "o", "n", "y", " ", "-", " ", "P", "l", "a", "y", "S", "t", "a", "t", "i", "o", "n", " ", "P", "o", "r", "t", "a", "b", "l", "e">>,
      variations |-> <<<<"S", "o", "n", "y", " ", "P", "l", "a", "y", "s", "t", "a", "t", "i", "o", "n", " ", "P", "o", "r", "t", "a", "b", "l", "e">>,
                      <<"p", "s", "p">>>>],
     [name |-> <<"B", "a", "n", "d", "a", "i", " ", "-", " ", "W", "o", "n", "d", "e", "r", "S", "w", "a", "n", " ", "C", "o", "l", "o", "r">>,
      variations |-> <<<<"W", "o", "n", "d", "e", "r", "S", "w", "a", "n", " ", "C", "o", "l", "o", "r">>,
                      <<"w", "o", "n", "d", "e", "r", "s", "w", "a", "n", "-", "c", "o", "l", "o", "r">>>>],
     [name |-> <<"S", "N", "K", " ", "-", " ", "N", "e", "o", " ", "G", "e", "o", " ", "P", "o", "c", "k", "e", "t">>,
      variations |-> <<<<"N", "e", "o", " ", "G", "e", "o", " ", "P", "o", "c", "k", "e", "t">>,
                      <<"n", "e", "o", "-", "g", "e", "o", "-", "p", "o", "c", "k", "e", "t">>>>],
     [name |-> <<"C", "o", "l", "e", "c", "o", " ", "-", " ", "C", "o", "l", "e", "c", "o", "v", "i", "s", "i", "o", "n">>,
      variations |-> <<<<"C", "o", "l", "e", "c", "o", "v", "i", "s", "i", "o", "n">>,
                      <<"c", "o", "l", "e", "c", "o", "v", "i", "s", "i", "o", "n">>>>],
     [name |-> <<"M", "a", "t", "t", "e", "l", " ", "-", " ", "I", "n", "t", "e", "l", "l", "i", "v", "i", "s", "i", "o", "n">>,
      variations |-> <<<<"I", "n", "t", "e", "l", "l", "i", "v", "i", "s", "i", "o", "n">>,
                      <<"i", "n", "t", "e", "l", "l", "i", "v", "i", "s", "i", "o", "n">>>>],
     [name |-> <<"G", "C", "E", " ", "-", " ", "V", "e", "c", "t", "r", "e", "x">>,
      variations |-> <<<<"V", "e", "c", "t", "r", "e", "x">>,
                      <<"v", "e", "c", "t", "r", "e", "x">>>>],
     [name |-> <<"A", "t", "a", "r", "i", " ", "-", " ", "2", "6", "0", "0">>,
      variations |-> <<<<"A", "t", "a", "r", "i", " ", "2", "6", "0", "0">>,
                      <<"a", "t", "a", "r", "i", "-", "2", "6", "0", "0">>>>],
     [name |-> <<"N", "E", "C", " ", "-", " ", "P", "C", " ", "E", "n", "g", "i", "n", "e", " ", "S", "u", "p", "e", "r", "G", "r", "a", "f", "x">>,
      variations |-> <<<<"P", "C", " ", "E", "n", "g", "i", "n", "e", " ", "S", "u", "p", "e", "r", "G", "r", "a", "f", "x">>,
                      <<"s", "u", "p", "e", "r", "g", "r", "a", "f", "x">>>>],
     [name |-> <<"C", "H", "I", "P", "-", "8">>,
      variations |-> <<<<"C", "H", "I", "P", "-", "8">>,
                      <<"c", "h", "i", "p", "-", "8">>>>],
     [name |-> <<"D", "O", "S">>,
      variations |-> <<<<"D", "O", "S">>,
                      <<"m", "s", "-", "d", "o", "s">>>>],
     [name |-> <<"S", "c", "u", "m", "m", "V", "M">>,
      variations |-> <<<<"S", "c", "u", "m", "m", "V", "M">>,
                      <<"s", "c", "u", "m", "m", "v", "m">>>>],
     [name |-> <<"T", "I", "C", "-", "8", "0">>,
      variations |-> <<<<"T", "I", "C", "-", "8", "0">>,
                      <<"t", "i", "c", "-", "8", "0">>>>],
     [name |-> <<"W", "A", "S", "M", "-", "4">>,
      variations |-> <<<<"W", "A", "S", "M", "-", "4">>,
                      <<"w", "a", "s", "m", "-", "4">>>>],
     [name |-> <<"L", "o", "w", "R", "e", "s", "N", "X">>,
      variations |-> <<<<"L", "o", "w", "R", "e", "s", " ", "N", "X">>,
                      <<"l", "o", "w", "r", "e", "s", "-", "n", "x">>>>],
     [name |-> <<"V", "a", "p", "o", "r", "S", "p", "e", "c">>,
      variations |-> <<<<"V", "a", "p", "o", "r", "S", "p", "e", "c">>,
                      <<"v", "a", "p", "o", "r", "s", "p", "e", "c">>>>],
     [name |-> <<"U", "z", "e", "b", "o", "x">>,
      variations |-> <<<<"U", "z", "e", "b", "o", "x">>,
                      <<"u", "z", "e", "b", "o", "x">>>>],
     [name |-> <<"C", "h", "a", "i", "L", "o", "v", "e">>,
      variations |-> <<<<"C", "h", "a", "i", "L", "o", "v", "e">>,
                      <<"c", "h", "a", "i", "l", "o", "v", "e">>>>],
     [name |-> <<"L", "u", "t", "r", "o">>,
      variations |-> <<<<"L", "u", "t", "r", "o">>,
                      <<"l", "u", "t", "r", "o">>>>],
     [name |-> <<"C", "a", "v", "e", " ", "S", "t", "o", "r", "y">>,
      variations |-> <<<<"C", "a", "v", "e", " ", "S", "t", "o", "r", "y">>,
                      <<"c", "a", "v", "e", "-", "s", "t", "o", "r", "y">>>>],
     [name |-> <<"Q", "u", "a", "k", "e">>,
      variations |-> <<<<"Q", "u", "a", "k", "e">>,
                      <<"q", "u", "a", "k", "e">>>>],
     [name |-> <<"Q", "u", "a", "k", "e", " ", "I", "I">>,
      variations |-> <<<<"Q", "u", "a", "k", "e", " ", "I", "I">>,
                      <<"q", "u", "a", "k", "e", "-", "2">>>>],
     [name |-> <<"D", "O", "O", "M">>,
      variations |-> <<<<"D", "O", "O", "M">>,
                      <<"d", "o", "o", "m">>>>],
     [name |-> <<"W", "o", "l", "f", "e", "n", "s", "t", "e", "i", "n", " ", "3", "D">>,
      variations |-> <<<<"W", "o", "l", "f", "e", "n", "s", "t", "e", "i", "n", " ", "3", "D">>,
                      <<"w", "o", "l", "f", "e", "n", "s", "t", "e", "i", "n", "-", "3", "d">>>>],
     [name |-> <<"T", "o", "m", "b", " ", "R", "a", "i", "d", "e", "r">>,
      variations |-> <<<<"T", "o", "m", "b", " ", "R", "a", "i", "d", "e", "r">>,
                      <<"t", "o", "m", "b", "-", "r", "a", "i", "d", "e", "r">>>>],
     [name |-> <<"C", "a", "n", "n", "o", "n", "b", "a", "l", "l">>,
      variations |-> <<<<"C", "a", "n", "n", "o", "n", "b", "a", "l", "l">>,
                      <<"c", "a", "n", "n", "o", "n", "b", "a", "l", "l">>>>],
     [name |-> <<"R", "i", "c", "k", " ", "D", "a", "n", "g", "e", "r", "o", "u", "s">>,
      variations |-> <<<<"R", "i", "c", "k", " ", "D", "a", "n", "g", "e", "r", "o", "u", "s">>,
                      <<"r", "i", "c", "k", "-", "d", "a", "n", "g", "e", "r", "o", "u", "s">>>>],
     [name |-> <<"D", "i", "n", "o", "t", "h", "a", "w", "r">>,
      variations |-> <<<<"D", "i", "n", "o", "t", "h", "a", "w", "r">>,
                      <<"d", "i", "n", "o", "t", "h", "a", "w", "r">>>>],
     [name |-> <<"S", "u", "p", "e", "r", " ", "B", "r", "o", "s", " ", "W", "a", "r">>,
      variations |-> <<<<"S", "u", "p", "e", "r", " ", "B", "r", "o", "s", " ", "W", "a", "r">>,
                      <<"s", "u", "p", "e", "r", "-", "b", "r", "o", "s", "-", "w", "a", "r">>>>],
     [name |-> <<"V", "i", "r", "c", "o", "n", "3", "2">>,
      variations |-> <<<<"V", "i", "r", "c", "o", "n", "3", "2">>,
                      <<"v", "i", "r", "c", "o", "n", "3", "2">>>>],
     [name |-> <<"U", "t", "i", "l", "i", "t", "i", "e", "s">>,
      variations |-> <<<<"U", "t", "i", "l", "i", "t", "i", "e", "s">>,
                      <<"u", "t", "i", "l", "s">>>>],
     [name |-> <<"M", "i", "c", "r", "o", "W", "8">>,
      variations |-> <<<<"M", "i", "c", "r", "o", "W", "8">>,
                      <<"m", "i", "c", "r", "o", "-", "w", "8">>>>],
     [name |-> <<"P", "o", "c", "k", "e", "t", "C", "D", "G">>,
      variations |-> <<<<"P", "o", "c", "k", "e", "t", "C", "D", "G">>,
                      <<"p", "o", "c", "k", "e", "t", "-", "c", "d", "g">>>>],
     [name |-> <<"J", "u", "m", "p", " ", "'", "n", " ", "B", "u", "m", "p">>,
      variations |-> <<<<"J", "u", "m", "p", " ", "'", "n", " ", "B", "u", "m", "p">>,
                      <<"j", "u", "m", "p", "-", "n", "-", "b", "u", "m", "p">>>>],
     [name |-> <<"V", "i", "d", "e", "o">>,
      variations |-> <<<<"V", "i", "d", "e", "o", " ", "P", "l", "a", "y", "e", "r">>,
                      <<"v", "i", "d", "e", "o", "-", "p", "l", "a", "y", "e", "r">>>>],
     [name |-> <<"A", "r", "d", "u", "o", "u", "s">>,
      variations |-> <<<<"A", "r", "d", "u", "i", "n", "o">>,
                      <<"a", "r", "d", "u", "i", "n", "o">>>>],
     [name |-> <<"I", "m", "a", "g", "e", "s">>,
      variations |-> <<<<"I", "m", "a", "g", "e", " ", "V", "i", "e", "w", "e", "r">>,
                      <<"i", "m", "a", "g", "e", "-", "v", "i", "e", "w", "e", "r">>>>],
     [name |-> <<"H", "a", "n", "d", "h", "e", "l", "d", " ", "E", "l", "e", "c", "t", "r", "o", "n", "i", "c", " ", "G", "a", "m", "e">>,
      variations |-> <<<<"H", "a", "n", "d", "h", "e", "l", "d", " ", "E", "l", "e", "c", "t", "r", "o", "n", "i", "c", " ", "G", "a", "m", "e", "s", " ", "(", "L", "C", "D", ")">>,
                      <<"l", "c", "d", "-", "g", "a", "m", "e", "s">>>>]>>
\* name_variations[system_name], None when system_name is no key of it.
variations_of(system_name) ==
  LET at == {k \in 1..Len(name_variations) : name_variations[k].name = system_name}
  IN  IF at = {} THEN None ELSE name_variations[CHOOSE k \in at : TRUE]

Elements(seq) == {seq[k] : k \in 1..Len(seq)}

\* The first row of systems, in fetchall() order, among those at the
\* positions hits (the rows that pass the test of a loop); None when there
\* is none.
first_system(hits) ==
  IF hits = {} THEN None
  ELSE systems[CHOOSE k \in hits : \A m \in hits : k <= m]

\* x < y for Python strings: by code point, a proper prefix first.
RECURSIVE StrLessFrom(_, _, _)
StrLessFrom(x, y, i) ==
  IF i > Len(y) THEN FALSE
  ELSE IF i > Len(x) THEN TRUE
  ELSE IF x[i] = y[i] THEN StrLessFrom(x, y, i + 1)
  ELSE Ord[x[i]] < Ord[y[i]]

StrLess(x, y) == StrLessFrom(x, y, 1)

\* The length of the common run of a from i and b from j, within the windows.
RECURSIVE RunLen(_, _, _, _, _, _)
RunLen(a, i, ahi, b, j, bhi) ==
  IF i > ahi \/ j > bhi \/ a[i] # b[j] THEN 0
  ELSE 1 + RunLen(a, i + 1, ahi, b, j + 1, bhi)

\* SequenceMatcher.find_longest_match: the longest common block of
\* a[alo..ahi] and b[blo..bhi], the earliest in a and then the earliest in b
\* among the longest, as [i, j, size]; size is 0 when there is none.  No
\* character is junk (isjunk is None, and the automatic heuristic needs 200
\* characters).
find_longest_match(a, alo, ahi, b, blo, bhi) ==
  LET blocks == {[i |-> p[1], j |-> p[2], size |-> RunLen(a, p[1], ahi, b, p[2], bhi)] :
                   p \in {q \in (alo..ahi) \X (blo..bhi) : a[q[1]] = b[q[2]]}}
  IN  IF blocks = {} THEN [i |-> alo, j |-> blo, size |-> 0]
      ELSE CHOOSE m \in blocks : \A n \in blocks :
             \/ m.size > n.size
             \/ m.size = n.size /\ (m.i < n.i \/ (m.i = n.i /\ m.j <= n.j))

\* SequenceMatcher.get_matching_blocks, counted: the longest match m of the
\* two windows, and the text on each side of it matched the same way.
RECURSIVE MatchCount(_, _, _, _, _, _)
MatchCount(a, alo, ahi, b, blo, bhi) ==
  LET counts == {IF m.size = 0 THEN 0
                 ELSE m.size + MatchCount(a, alo, m.i - 1, b, blo, m.j - 1)
                             + MatchCount(a, m.i + m.size, ahi, b, m.j + m.size, bhi) :
                   m \in {find_longest_match(a, alo, ahi, b, blo, bhi)}}
  IN  CHOOSE n \in counts : TRUE

\* SequenceMatcher(None, a, b).ratio() as the fraction num / den
\* (2.0 * matches / length, and 1.0 when both are empty).
ratio(a, b) ==
  IF Len(a) + Len(b) = 0 THEN [num |-> 1, den |-> 1]
  ELSE [num |-> 2 * MatchCount(a, 1, Len(a), b, 1, Len(b)), den |-> Len(a) + Len(b)]

\* The cutoff 0.6 of get_close_matches, in tenths.
CutoffTenths == 6

\* get_close_matches(word, possibilities, n=1, cutoff=0.6): the possibility
\* with the greatest (ratio, string) among those whose ratio is at least the
\* cutoff, as a list of at most one string.  The two quick ratios tested
\* first are upper bounds of ratio() and exclude nothing more.
get_close_matches(word, possibilities) ==
  LET score == [x \in Elements(possibilities) |-> ratio(x, word)]
      good == {x \in Elements(possibilities) :
                 10 * score[x].num >= CutoffTenths * score[x].den}
      Below(x, y) ==
        \/ score[x].num * score[y].den < score[y].num * score[x].den
        \/ /\ score[x].num * score[y].den = score[y].num * score[x].den
           /\ (x = y \/ StrLess(x, y))
  IN  IF good = {} THEN <<>>
      ELSE <<CHOOSE x \in good : \A y \in good : Below(y, x)>>

\* One pass of the loop over cores_data: the id system_name is mapped to, if
\* any, and whether the warning was printed for it.
map_system(system_name) ==
  LET entry == variations_of(system_name)
      ByVariation(db_system) ==
        \/ Lower(db_system.name) \in {Lower(v) : v \in Elements(entry.variations)}
        \/ db_system.alias \in Elements(entry.variations)
      Direct(db_system) ==
        \/ Lower(system_name) = Lower(db_system.name)
        \/ Lower(system_name) = db_system.alias
      Passing(Test(_)) == {k \in 1..Len(systems) : Test(systems[k])}
      known == IF entry = None THEN None ELSE first_system(Passing(ByVariation))
      direct == IF known # None THEN known ELSE first_system(Passing(Direct))
      db_system_names == [k \in 1..Len(systems) |-> Lower(systems[k].name)]
      matches == get_close_matches(Lower(system_name), db_system_names)
      Closest(db_system) == Lower(db_system.name) = matches[1]
      fuzzy == IF matches = <<>> THEN None ELSE first_system(Passing(Closest))
  IN  IF direct # None
      THEN [found |-> TRUE, id |-> direct.id, warning |-> FALSE]
      ELSE IF fuzzy # None
           THEN [found |-> TRUE, id |-> fuzzy.id, warning |-> TRUE]
           ELSE [found |-> FALSE, warning |-> TRUE]

\* get_system_mapping: the mapping {system name: id} over the systems of
\* cores_data (a name listed twice is mapped twice to the same id), and the
\* names the 'No mapping found' warning was printed for.
get_system_mapping ==
  LET names == {cores_data[k].name : k \in 1..Len(cores_data)}
      pass == [n \in names |-> map_system(n)]
      mapped == {n \in names : pass[n].found}
  IN  [mapping |-> [n \in mapped |-> pass[n].id],
       warned  |-> {n \in names : pass[n].warning}]

(***************************************************************************)
(* The importer, convert_to_sqlite.import_data.  A JSON object is a record *)
(* that has a field for each key present; a JSON null is NULL.  Of the     *)
(* columns of games only id, game_title and platform are kept: the others  *)
(* are copied from the source and read by nothing.                         *)
(***************************************************************************)

Has(obj, key) == key \in DOMAIN obj

\* obj.get(key) is truthy: the key is there with a non-empty list.
Truthy(obj, key) == Has(obj, key) /\ obj[key] # <<>>

\* A table in rowid order after INSERT OR REPLACE of row under its INTEGER
\* PRIMARY KEY id: the row that had the id, if any, gives way.
insert_or_replace(table, row) ==
  LET before == SelectSeq(table, LAMBDA r : r.id < row.id)
      after  == SelectSeq(table, LAMBDA r : r.id > row.id)
  IN  before \o <<row>> \o after

\* The rowid SQLite gives a row inserted with no id: one more than the
\* largest in the table.
next_rowid(table) == IF table = <<>> THEN 1 ELSE table[Len(table)].id + 1

\* safe_insert_many with INSERT OR IGNORE INTO <join table> (game_id, x): the
\* pairs not yet in the table are added, the others ignored.
safe_insert_many(table, game_id, items) ==
  table \cup {<<game_id, items[k]>> : k \in 1..Len(items)}

\* The loop over include.platform.data: a platform with no id or no name, or
\* a null name (NOT NULL), is reported and passed over.
RECURSIVE import_platforms(_, _, _)
import_platforms(table, platforms, k) ==
  IF k > Len(platforms) THEN table
  ELSE LET p == platforms[k]
           ok == Has(p, "id") /\ Has(p, "name") /\ p.name # NULL
           row == [id |-> p.id, name |-> p.name,
                   alias |-> IF Has(p, "alias") THEN p.alias ELSE NULL]
       IN  import_platforms(IF ok THEN insert_or_replace(table, row) ELSE table,
                            platforms, k + 1)

\* The body of the try block for one game: the row of games, then the join
\* rows.  A null game_title violates NOT NULL and ends the block before
\* anything is inserted.
import_game(t, game) ==
  IF game.game_title = NULL THEN t
  ELSE [games |-> insert_or_replace(t.games,
                    [id |-> game.id, game_title |-> game.game_title,
                     platform |-> game.platform]),
        game_developers |->
          IF Truthy(game, "developers")
          THEN safe_insert_many(t.game_developers, game.id, game.developers)
          ELSE t.game_developers,
        game_genres |->
          IF Truthy(game, "genres")
          THEN safe_insert_many(t.game_genres, game.id, game.genres)
          ELSE t.game_genres,
        game_publishers |->
          IF Truthy(game, "publishers")
          THEN safe_insert_many(t.game_publishers, game.id, game.publishers)
          ELSE t.game_publishers,
        game_alternates |->
          IF Truthy(game, "alternates")
          THEN safe_insert_many(t.game_alternates, game.id,
                 SelectSeq(game.alternates, LAMBDA alt : alt # NULL /\ alt # <<>>))
          ELSE t.game_alternates]

\* The except clause of the game loop formats game['id'] and
\* game['game_title'] into its message: for a game that lacks one of the two
\* keys the KeyError it handles is raised again, inside the handler.
handler_raises(game) == ~ (Has(game, "id") /\ Has(game, "game_title"))

\* The loop over data.games inside `with conn:'.  The result is the tables,
\* or raised when an exception left the loop.
RECURSIVE import_games(_, _, _)
import_games(t, source, k) ==
  IF k > Len(source) THEN [raised |-> FALSE, tables |-> t]
  ELSE IF handler_raises(source[k]) THEN [raised |-> TRUE]
  ELSE import_games(import_game(t, source[k]), source, k + 1)

\* The loop over include.boxart.data: every artwork with a type and a
\* filename becomes a new row (INSERT OR REPLACE with no id), the others are
\* reported and passed over.
RECURSIVE import_artwork(_, _, _, _)
import_artwork(table, boxart, g, k) ==
  IF g > Len(boxart) THEN table
  ELSE IF k > Len(boxart[g].artworks) THEN import_artwork(table, boxart, g + 1, 1)
  ELSE LET art == boxart[g].artworks[k]
           row == [id |-> next_rowid(table), game_id |-> boxart[g].game_id,
                   type |-> art.type, filename |-> art.filename]
       IN  import_artwork(IF Has(art, "type") /\ Has(art, "filename")
                          THEN Append(table, row) ELSE table,
                          boxart, g, k + 1)

\* import_data(conn, json_path) on the store as it stands: the platforms are
\* committed first; the games and the artwork are one transaction, which
\* `with conn:' rolls back when an exception leaves it.
import_data ==
  LET imported == IF Has(data, "platform")
                  THEN import_platforms(systems, data.platform, 1) ELSE systems
      start == [games |-> games, game_developers |-> game_developers,
                game_genres |-> game_genres, game_publishers |-> game_publishers,
                game_alternates |-> game_alternates]
      loop == import_games(start, data.games, 1)
  IN  IF loop.raised
      THEN [raised |-> TRUE, systems |-> imported, tables |-> start,
            game_artwork |-> game_artwork]
      ELSE [raised |-> FALSE, systems |-> imported, tables |-> loop.tables,
            game_artwork |-> IF Has(data, "boxart")
                             THEN import_artwork(game_artwork, data.boxart, 1, 1)
                             ELSE game_artwork]

(***************************************************************************)
(* The artwork downloader: get_artwork_urls, download_artwork_parallel,    *)
(* download_file and run.                                                  *)
(***************************************************************************)

GAMESDB_CDN == "https://cdn.thegamesdb.net/"

\* The default of download_artwork_parallel's max_workers.
max_workers == 4

COVER      == <<"-", "c", "o", "v", "e", "r", ".", "j", "p", "g">>
SCREENSHOT == <<"-", "s", "c", "r", "e", "e", "n", "s", "h", "o", "t", ".", "j", "p", "g">>

\* The rows of game_artwork for game_id with type 'boxart' or 'screenshot',
\* ORDER BY type, id: the boxart rows in id order, then the screenshot rows.
get_artwork_urls(game_id) ==
  SelectSeq(game_artwork, LAMBDA r : r.game_id = game_id /\ r.type = "boxart")
  \o SelectSeq(game_artwork, LAMBDA r : r.game_id = game_id /\ r.type = "screenshot")

\* Path("ROMs") / system_name / file_name.
rom_path(system_name, file_name) == [dir |-> <<"ROMs", system_name>>, name |-> file_name]

\* A task whose output file is named after the normalized name.
download_task_normalized(system_name, original_filename, url_data) ==
  LET safe_title == clean_game_name(original_filename)
  IN  [url  |-> <<GAMESDB_CDN, "images/original/", url_data.filename>>,
       path |-> rom_path(system_name,
                  safe_title \o (IF url_data.type = "boxart" THEN COVER ELSE SCREENSHOT))]

\* The (cdn_url, output_path) of one artwork row.
download_task(system_name, original_filename, url_data) ==
  LET safe_title == splitext_root(original_filename)
  IN  [url  |-> <<GAMESDB_CDN, "images/original/", url_data.filename>>,
       path |-> rom_path(system_name,
                  safe_title \o (IF url_data.type = "boxart" THEN COVER ELSE SCREENSHOT))]

\* A task list with a task for every row, its output existing or not.
download_tasks_all(system_name, original_filename, artwork_urls) ==
  [k \in 1..Len(artwork_urls) |->
     download_task(system_name, original_filename, artwork_urls[k])]

\* The download_tasks list of download_artwork_parallel: one task per row
\* whose output path does not exist yet, in the order of the rows.
download_tasks(system_name, original_filename, artwork_urls) ==
  LET all == [k \in 1..Len(artwork_urls) |->
                download_task(system_name, original_filename, artwork_urls[k])]
  IN  SelectSeq(all, LAMBDA task : task.path \notin DOMAIN files)

\* `not self.system_mapping.get(system_name)': the name has no entry, or its
\* entry is 0.
not_system_id(system_name) ==
  \/ system_name \notin DOMAIN system_mapping
  \/ system_mapping[system_name] = 0

Running == {k \in 1..Len(pool) : pool[k].status = "running"}
Queued  == {k \in 1..Len(pool) : pool[k].status = "queued"}

\* The futures the executor has accepted: all of them are queued at once.
submit_all(tasks) ==
  [k \in 1..Len(tasks) |-> [url |-> tasks[k].url, path |-> tasks[k].path,
                            status |-> "queued", slept |-> FALSE]]

\* The record of a call of clean_game_name on name.
note_clean(name) ==
  [r \in DOMAIN normalized \cup {name} |->
     IF r = name
     THEN (IF r \in DOMAIN normalized THEN normalized[r] ELSE {}) \cup {clean_game_name(name)}
     ELSE normalized[r]]

idleCall   == raw = <<>> /\ system_id = 0 /\ cleaned = <<>> /\ found = None
idleImport == data = [games |-> <<>>] /\ runs = 0 /\ raised = FALSE /\ first_run = None
idleRun    == /\ sys_i = 1 /\ child_i = 1 /\ pool = <<>> /\ files = <<>>
              /\ normalized = <<>> /\ looked_up = {} /\ rested = {}
idleJoins  == /\ game_developers = {} /\ game_genres = {}
              /\ game_publishers = {} /\ game_alternates = {}

\* run, the head of the loop over cores_data: a system with no usable id or
\* with no children is passed over, the others go on to their children.
RunSystem ==
  /\ pc = "system"
  /\ IF sys_i > Len(cores_data)
     THEN pc' = "done" /\ UNCHANGED <<sys_i, child_i>>
     ELSE IF \/ not_system_id(cores_data[sys_i].name)
             \/ ~ Has(cores_data[sys_i], "children")
          THEN sys_i' = sys_i + 1 /\ UNCHANGED <<pc, child_i>>
          ELSE pc' = "child" /\ child_i' = 1 /\ UNCHANGED sys_i
  /\ UNCHANGED <<storeVars, mapVars, callVars, importVars, pool, files, normalized,
                 looked_up, rested>>

\* run, one pass of the loop over a system's children: a file is looked up
\* and, when the game has artwork whose output is missing, a pool is
\* created for it and every task submitted; otherwise run sleeps and goes
\* on to the next child.
RunChild ==
  /\ pc = "child"
  /\ LET system == cores_data[sys_i]
         child == system.children[child_i]
         Found == {find_game_in_db(child.name, system_mapping[system.name])}
         Tasks(game) ==
           {IF game = None THEN <<>>
            ELSE download_tasks(system.name, child.name, get_artwork_urls(game.id))}
     IN  IF child_i > Len(system.children)
         THEN /\ pc' = "system"
              /\ sys_i' = sys_i + 1
              /\ UNCHANGED <<child_i, pool, normalized, looked_up, rested>>
         ELSE IF child.type # "file"
         THEN /\ child_i' = child_i + 1
              /\ UNCHANGED <<pc, sys_i, pool, normalized, looked_up, rested>>
         ELSE /\ normalized' = note_clean(child.name)
              /\ looked_up' = looked_up \cup {<<sys_i, child_i>>}
              /\ \E game \in Found : \E tasks \in Tasks(game) :
                   IF tasks # <<>>
                   THEN /\ pool' = submit_all(tasks)
                        /\ pc' = "pool"
                        /\ UNCHANGED <<sys_i, child_i, rested>>
                   ELSE /\ rested' = rested \cup {<<sys_i, child_i>>}
                        /\ child_i' = child_i + 1
                        /\ UNCHANGED <<pc, sys_i, pool>>
  /\ UNCHANGED <<storeVars, mapVars, callVars, importVars, files>>

\* A pool that starts a thread for every task.
can_start_unbounded == Queued # {}

\* ThreadPoolExecutor(max_workers=max_workers): a queued task is taken up
\* when fewer than max_workers threads are busy.
can_start == Queued # {} /\ Cardinality(Running) < max_workers

\* A worker thread of the pool takes the oldest queued task and calls
\* download_file, which sends the request.
WorkerStart ==
  /\ pc = "pool"
  /\ can_start
  /\ LET k == CHOOSE q \in Queued : \A m \in Queued : q <= m
     IN  pool' = [pool EXCEPT ![k].status = "running"]
  /\ UNCHANGED <<storeVars, mapVars, callVars, importVars, pc, sys_i, child_i,
                 files, normalized, looked_up, rested>>

\* What a file holds when a download_file call that wrote to it ends: the
\* body of its url, or anything when another call was writing to it too.
written(k) ==
  {pool[k].url} \cup
  (IF \E m \in Running \ {k} : pool[m].path = pool[k].path THEN {<<"garbled">>} ELSE {})

\* download_file ends: the body was written and the call slept
\* (time.sleep(0.5)) and returned True, or the request failed before the
\* file was opened, or the stream broke after part of the body was written;
\* the last two leave the `try' block by an exception, before the sleep.
WorkerFinish(k) ==
  /\ pc = "pool"
  /\ k \in Running
  /\ \/ /\ \E body \in written(k) : files' = (pool[k].path :> body) @@ files
        /\ pool' = [pool EXCEPT ![k].status = "done", ![k].slept = TRUE]
     \/ /\ files' = files
        /\ pool' = [pool EXCEPT ![k].status = "done"]
     \/ /\ files' = (pool[k].path :> <<"partial">>) @@ files
        /\ pool' = [pool EXCEPT ![k].status = "done"]
  /\ UNCHANGED <<storeVars, mapVars, callVars, importVars, pc, sys_i, child_i,
                 normalized, looked_up, rested>>

\* concurrent.futures.wait and the end of the `with' block: every future is
\* done, the pool is shut down, and run sleeps and goes on to the next child.
PoolJoin ==
  /\ pc = "pool"
  /\ \A k \in 1..Len(pool) : pool[k].status = "done"
  /\ pool' = <<>>
  /\ pc' = "child"
  /\ child_i' = child_i + 1
  /\ rested' = rested \cup {<<sys_i, child_i>>}
  /\ UNCHANGED <<storeVars, mapVars, callVars, importVars, sys_i, files, normalized,
                 looked_up>>

(***************************************************************************)
(* The inputs of the specifications, and their bounds.                     *)
(***************************************************************************)

\* The strings made of at most n of the given pieces.
RECURSIVE Words(_, _)
Words(pieces, n) ==
  IF n = 0 THEN {<<>>}
  ELSE Words(pieces, n - 1) \cup {w \o p : w \in Words(pieces, n - 1), p \in pieces}

\* The sequences of at most n elements of S.
RECURSIVE SeqsUpTo(_, _)
SeqsUpTo(S, n) ==
  IF n = 0 THEN {<<>>}
  ELSE SeqsUpTo(S, n - 1) \cup {Append(q, x) : q \in SeqsUpTo(S, n - 1), x \in S}

\* A table whose k-th row is rows[k] with id first + k - 1.
WithIds(rows, first) ==
  [k \in 1..Len(rows) |-> [id |-> first + k - 1] @@ rows[k]]

\* Filenames for the normaliser: single characters of every kind it treats
\* specially, and four entries of the denylist.
MaxPieces == 4
CleanPieces ==
  {<<"a">>, <<"B">>, <<" ">>, <<"_">>, <<"(">>, <<")">>, <<".">>,
   suffixes[1], suffixes[2], suffixes[3], suffixes[5]}
CleanNames(n) == Words(CleanPieces, n)

\* Stores and filenames for the resolver.
MaxGames == 2
Platforms == {1, 2}
Titles ==
  {<<>>, <<"a">>, <<"A">>, <<"x", "a">>, <<"a", " ", "b">>, <<"A", " ", "B">>,
   <<"a", "%", "b">>}
LookupNames ==
  {<<"a", "_", "b", "(", "x", ")", ".", "z">>,
   <<"a", "B", ".", "z">>,
   <<"a", ".", "z">>,
   <<"A">>,
   <<"(", "x", ")", ".", "z">>,
   <<"a", "%", "b", ".", "z">>,
   <<"%", ".", "z">>,
   <<"x", "a", "_", "b", "y">>}
Stores(n) ==
  {WithIds(rows, 1) :
     rows \in SeqsUpTo([game_title : Titles, platform : Platforms], n)}

\* Stored systems and file trees for the platform mapping.
MaxSystems == 2
MaxCores == 2
DOOM   == <<"D", "O", "O", "M">>
NES    == name_variations[8].name
Xyzzy  == <<"X", "y", "z", "z", "y">>
SystemRows ==
  {[name |-> <<"D", "o", "o", "m">>, alias |-> NULL],
   [name |-> <<"D", "o", "o", "m", " ", "2">>, alias |-> NULL],
   [name |-> <<"F", "a", "m", "i", "c", "o", "m">>, alias |-> <<"n", "e", "s">>],
   [name |-> <<"F", "a", "m", "i", "c", "o", "m">>, alias |-> <<"N", "E", "S">>],
   [name |-> <<"x", "y", "z", "z", "y">>, alias |-> NULL],
   [name |-> <<"O", "t", "h", "e", "r">>, alias |-> <<"x", "y", "z", "z", "y">>],
   [name |-> <<"X", "y", "z", "z">>, alias |-> <<"x">>]}
SystemTables(n) ==
  {WithIds(rows, first) : rows \in SeqsUpTo(SystemRows, n), first \in {0, 1}}
CoreTrees(n) == SeqsUpTo({[name |-> c] : c \in {DOOM, NES, Xyzzy}}, n)

\* Sources for the importer: games with and without their required keys,
\* with and without join data, a platform section and an artwork section.
MaxSourceGames == 2
MaxRuns == 2
NoKeys == [k \in {} |-> k]
GameObjects ==
  {ident @@ title @@ joins @@ [platform |-> 1] :
     ident \in {NoKeys, [id |-> 1], [id |-> 2]},
     title \in {NoKeys, [game_title |-> NULL], [game_title |-> <<"a">>]},
     joins \in {NoKeys,
                [developers |-> <<7, 7>>, genres |-> <<3>>, publishers |-> <<5, 6>>,
                 alternates |-> <<<<"b">>, NULL, <<"b">>, <<>>>>]}}
PlatformSections ==
  {NoKeys,
   [platform |-> <<[id |-> 1, name |-> <<"s">>, alias |-> <<"x">>],
                   [id |-> 2, name |-> NULL],
                   [id |-> 3, name |-> <<"t">>],
                   [name |-> <<"u">>]>>]}
BoxartSections ==
  {NoKeys,
   [boxart |-> <<[game_id |-> 1,
                  artworks |-> <<[type |-> "boxart", filename |-> <<"f">>],
                                 [filename |-> <<"g">>]>>]>>]}
Sources(n) ==
  {[games |-> gs] @@ ps @@ bs :
     gs \in SeqsUpTo(GameObjects, n),
     ps \in PlatformSections, bs \in BoxartSections}

\* Stores and file trees for run: an arcade system with up to MaxChildren
\* children, a system the mapping leaves out, a system whose stored id is
\* 0, one with a directory and a file that matches no game, and one with
\* no children; a game with up to MaxArtwork box art rows and a game with
\* one.
MaxArtwork == 4
MaxChildren == 2
Arcade == name_variations[1].name
RunSystems ==
  <<[id |-> 0, name |-> <<"F", "a", "m", "i", "c", "o", "m">>, alias |-> <<"n", "e", "s">>],
    [id |-> 1, name |-> Arcade, alias |-> <<"a", "r", "c", "a", "d", "e">>],
    [id |-> 2, name |-> <<"D", "o", "o", "m">>, alias |-> NULL]>>
RunGames ==
  <<[id |-> 1, game_title |-> <<"a", " ", "b">>, platform |-> 1],
    [id |-> 2, game_title |-> <<"c">>, platform |-> 1],
    [id |-> 3, game_title |-> <<"a", " ", "b">>, platform |-> 2],
    [id |-> 4, game_title |-> <<"n">>, platform |-> 0]>>
\* Game 1 has a fan art row, then its screenshot rows, then its box art
\* rows; game 2 has the last row, a box art.
artwork_rows(boxarts, screenshots) ==
  [k \in 1..(boxarts + screenshots + 2) |->
     [id |-> k,
      game_id |-> IF k = boxarts + screenshots + 2 THEN 2 ELSE 1,
      type |-> IF k = 1 THEN "fanart"
               ELSE IF k <= screenshots + 1 THEN "screenshot" ELSE "boxart",
      filename |-> <<k>>]]
RunArtwork(n) == {artwork_rows(b, s) : b \in 0..n, s \in 0..1}
Children ==
  {[name |-> <<"a", "_", "b", "(", "x", ")", ".", "z">>, type |-> "file"],
   [name |-> <<"c", ".", "z">>, type |-> "file"]}
RunTrees(n) ==
  {<<[name |-> Arcade, children |-> kids],
     [name |-> Xyzzy, children |-> <<[name |-> <<"c", ".", "z">>, type |-> "file"]>>],
     [name |-> NES, children |-> <<[name |-> <<"n", ".", "z">>, type |-> "file"]>>],
     [name |-> <<"D", "o", "o", "m">>,
      children |-> <<[name |-> <<"d">>, type |-> "directory"],
                     [name |-> <<"q", ".", "z">>, type |-> "file"]>>],
     [name |-> DOOM]>> :
     kids \in SeqsUpTo(Children, n)}

(***************************************************************************)
(* The specifications.                                                     *)
(***************************************************************************)

idleStore == /\ systems = <<>> /\ games = <<>> /\ game_artwork = <<>>
             /\ idleJoins
idleMap   == cores_data = <<>> /\ system_mapping = <<>> /\ warned = {}

\* Spec: ROMDownloader() followed by run(), on a store and a file tree.
Init ==
  /\ systems = RunSystems
  /\ games = RunGames
  /\ game_artwork \in RunArtwork(MaxArtwork)
  /\ idleJoins
  /\ cores_data \in RunTrees(MaxChildren)
  /\ LET built == get_system_mapping
     IN  system_mapping = built.mapping /\ warned = built.warned
  /\ pc = "system"
  /\ idleRun /\ idleCall /\ idleImport

Next ==
  \/ RunSystem
  \/ RunChild
  \/ WorkerStart
  \/ \E k \in 1..Len(pool) : WorkerFinish(k)
  \/ PoolJoin

Spec == Init /\ [][Next]_vars

\* SpecLive: Spec when run is not interrupted. run is one sequential loop
\* and blocks in concurrent.futures.wait only while a worker thread has a
\* task, the executor starts a queued task as soon as a thread is free, and
\* every request is taken to end (by a response or by an error): whenever
\* some step can be taken, one is.
SpecLive == Init /\ [][Next]_vars /\ WF_vars(Next)

\* SpecClean: clean_game_name applied to one filename.
InitClean ==
  /\ raw \in CleanNames(MaxPieces)
  /\ system_id = 0 /\ cleaned = <<>> /\ found = None
  /\ pc = "call"
  /\ idleStore /\ idleMap /\ idleRun /\ idleImport

CallClean ==
  /\ pc = "call"
  /\ cleaned' = clean_game_name(raw)
  /\ pc' = "return"
  /\ UNCHANGED <<storeVars, mapVars, runVars, importVars, raw, system_id, found>>

SpecClean == InitClean /\ [][CallClean]_vars

\* SpecResolve: find_game_in_db applied to one filename and platform, on a
\* store of games.
InitResolve ==
  /\ games \in Stores(MaxGames)
  /\ raw \in LookupNames
  /\ system_id \in Platforms
  /\ cleaned = <<>> /\ found = None
  /\ pc = "call"
  /\ systems = <<>> /\ game_artwork = <<>> /\ idleJoins
  /\ idleMap /\ idleRun /\ idleImport

CallFind ==
  /\ pc = "call"
  /\ cleaned' = clean_game_name(raw)
  /\ found' = find_game_in_db(raw, system_id)
  /\ pc' = "return"
  /\ UNCHANGED <<storeVars, mapVars, runVars, importVars, raw, system_id>>

SpecResolve == InitResolve /\ [][CallFind]_vars

\* SpecMapping: ROMDownloader.__init__ building system_mapping from a table
\* of stored systems and a file tree.
InitMapping ==
  /\ systems \in SystemTables(MaxSystems)
  /\ cores_data \in CoreTrees(MaxCores)
  /\ system_mapping = <<>> /\ warned = {}
  /\ pc = "construct"
  /\ games = <<>> /\ game_artwork = <<>> /\ idleJoins
  /\ idleRun /\ idleCall /\ idleImport

Construct ==
  /\ pc = "construct"
  /\ LET built == get_system_mapping
     IN  system_mapping' = built.mapping /\ warned' = built.warned
  /\ pc' = "constructed"
  /\ UNCHANGED <<storeVars, cores_data, runVars, callVars, importVars>>

SpecMapping == InitMapping /\ [][Construct]_vars

\* SpecImport: import_data run on the same source up to MaxRuns times,
\* starting from the empty database create_database makes.
InitImport ==
  /\ data \in Sources(MaxSourceGames)
  /\ runs = 0 /\ raised = FALSE /\ first_run = None
  /\ pc = "import"
  /\ idleStore /\ idleMap /\ idleRun /\ idleCall

JoinTables ==
  [game_developers |-> game_developers, game_genres |-> game_genres,
   game_publishers |-> game_publishers, game_alternates |-> game_alternates,
   game_artwork |-> game_artwork]

ImportData ==
  /\ pc = "import"
  /\ runs < MaxRuns
  /\ LET out == import_data
     IN  /\ systems' = out.systems
         /\ games' = out.tables.games
         /\ game_developers' = out.tables.game_developers
         /\ game_genres' = out.tables.game_genres
         /\ game_publishers' = out.tables.game_publishers
         /\ game_alternates' = out.tables.game_alternates
         /\ game_artwork' = out.game_artwork
         /\ raised' = out.raised
  /\ runs' = runs + 1
  /\ first_run' = IF runs = 0 THEN JoinTables' ELSE first_run
  /\ UNCHANGED <<mapVars, runVars, callVars, data, pc>>

SpecImport == InitImport /\ [][ImportData]_vars

(***************************************************************************)
(* The resolver's claims, under SpecResolve.                               *)
(***************************************************************************)

\* The games on the platform asked for, by position in the table.
OnPlatform == {k \in 1..Len(games) : games[k].platform = system_id}

\* Those whose title is the normalised name, ignoring case.
ExactGames == {k \in OnPlatform : Lower(games[k].game_title) = Lower(cleaned)}

\* Those whose title has the normalised name in it, ignoring case.
ContainingGames ==
  {k \in OnPlatform : Contains(Lower(games[k].game_title), Lower(cleaned))}

First(S) == CHOOSE k \in S : \A m \in S : k <= m

\* C1: when some game on the platform has the normalised name as its title,
\* ignoring case, find_game_in_db returns the first such game in primary
\* key order, and never a game that only contains the name.
C1_ExactMatchFirst ==
  (pc = "return" /\ ExactGames # {}) => found = games[First(ExactGames)]

\* C1's case: an exact match that comes after a game that only contains the
\* name.
C1_Witness ==
  /\ pc = "return"
  /\ ExactGames # {}
  /\ \E k \in ContainingGames \ ExactGames : k < First(ExactGames)
  /\ found = games[First(ExactGames)]

\* C2: with no exact match, find_game_in_db returns a game exactly when some
\* title on the platform contains the normalised name, ignoring case, and
\* the game returned is one whose title contains it; this for every name,
\* the empty name and names with a '%' included.
C2_ContainmentFallback ==
  (pc = "return" /\ ExactGames = {}) =>
    /\ found # None <=> ContainingGames # {}
    /\ found # None => found \in {games[k] : k \in ContainingGames}

(***************************************************************************)
(* The normaliser's claims, under SpecClean.                               *)
(***************************************************************************)

Stem == splitext_root(raw)

\* The stem ends in a parenthesized group: its last character is ")" and
\* the last "(" before it has no other parenthesis after it.
GroupStart == RFind(SubSeq(Stem, 1, Len(Stem) - 1), "(")

EndsInGroup ==
  /\ Len(Stem) >= 2
  /\ Stem[Len(Stem)] = ")"
  /\ GroupStart > 0
  /\ \A k \in (GroupStart + 1)..(Len(Stem) - 1) : Stem[k] # ")"

\* Steps 3 to 6 of the normaliser, applied to the stem without its trailing
\* group.
OtherSteps(s) ==
  Strip(JoinSplit(remove_suffixes(split_camel_case(Replace(s, <<"_">>, <<" ">>)))))

\* C3: for a filename whose stem ends in a parenthesized group,
\* clean_game_name removes that one group, with the whitespace before it,
\* and nothing else: the result is what the other steps make of the rest of
\* the stem, earlier groups included.
C3_OnlyTrailingGroupRemoved ==
  (pc = "return" /\ EndsInGroup) =>
    cleaned = OtherSteps(SubSeq(Stem, 1, GroupStart - 1))

(***************************************************************************)
(* The downloader's claims, under Spec.                                    *)
(***************************************************************************)

C9_DistinctPaths ==
  \A i, j \in 1..Len(pool) : i # j => pool[i].path # pool[j].path

\* The tasks download_artwork_parallel can make for the child run is at.
CurrentTasks ==
  LET system == cores_data[sys_i]
      child == system.children[child_i]
      game == find_game_in_db(child.name, system_mapping[system.name])
      rows == get_artwork_urls(game.id)
  IN  {download_task(system.name, child.name, rows[k]) : k \in 1..Len(rows)}

\* C10: at most max_workers download_file calls are in progress, all of
\* them for the game run is at, and run goes on to the next game only when
\* the pool of the last one is gone.
C10_OnePoolPerGame ==
  /\ Cardinality(Running) <= max_workers
  /\ pc # "pool" => pool = <<>>
  /\ pool # <<>> =>
       LET tasks == CurrentTasks
       IN  \A k \in 1..Len(pool) :
             [url |-> pool[k].url, path |-> pool[k].path] \in tasks

\* C10's case: max_workers calls in progress and a task waiting for a thread.
C10_Witness == Cardinality(Running) = max_workers /\ Queued # {}

(***************************************************************************)
(* The platform mapping's claims, under SpecMapping.                       *)
(***************************************************************************)

CoreNames == {cores_data[k].name : k \in 1..Len(cores_data)}

\* The stored systems, by position, whose name or alias is one of the alias
\* strings of system_name, ignoring case.
AliasMatches(system_name) ==
  LET lowered == {Lower(v) : v \in Elements(variations_of(system_name).variations)}
  IN  {k \in 1..Len(systems) :
         \/ Lower(systems[k].name) \in lowered
         \/ systems[k].alias # NULL /\ Lower(systems[k].alias) \in lowered}

\* C5: a canonical name of the alias table is mapped to the id of the
\* stored system whose name or alias is one of its alias strings, compared
\* without regard to case: the first such system in the table.
C5_AliasIgnoringCase ==
  pc = "constructed" =>
    \A n \in CoreNames :
      (variations_of(n) # None /\ AliasMatches(n) # {}) =>
        /\ n \in DOMAIN system_mapping
        /\ system_mapping[n] = systems[First(AliasMatches(n))].id

\* C6: the 'No mapping found' warning is printed only for a name that all
\* three stages leave unmapped, never for a name in the mapping.
C6_WarningOnlyWhenUnmapped ==
  pc = "constructed" => \A n \in warned : n \notin DOMAIN system_mapping

(***************************************************************************)
(* The importer's claims, under SpecImport.                                *)
(***************************************************************************)

\* C7: a second import_data of the same source leaves game_developers,
\* game_genres, game_publishers, game_alternates and game_artwork with the
\* rows the first one left.
C7_ImportIdempotent ==
  runs >= 2 =>
    /\ game_developers = first_run.game_developers
    /\ game_genres = first_run.game_genres
    /\ game_publishers = first_run.game_publishers
    /\ game_alternates = first_run.game_alternates
    /\ Len(game_artwork) = Len(first_run.game_artwork)

\* A game record that passes required-field validation.
WellFormed(game) ==
  Has(game, "id") /\ Has(game, "game_title") /\ game.game_title # NULL

\* C8: import_data passes over a game record with no id or no game_title
\* and goes on: when it has run, every well-formed record of the source,
\* before or after such a record, has its row in games.
C8_BadRecordSkipped ==
  runs >= 1 =>
    \A k \in 1..Len(data.games) :
      WellFormed(data.games[k]) =>
        \E g \in 1..Len(games) : games[g].id = data.games[k].id

(***************************************************************************)
(* The claims about the suffix denylist and about a second application of  *)
(* clean_game_name, under SpecClean.                                       *)
(***************************************************************************)

\* The extension of raw, and whether its stem is t followed by s.
Extension == SubSeq(raw, Len(Stem) + 1, Len(raw))
StemIs(t, s) == Stem = t \o s

\* C13: for every string s of the suffix denylist and every stem t, the
\* filename t+s+ext normalizes to what t+ext normalizes to, whatever the
\* steps before the removal of the suffixes do.
C13_DenylistRemoved ==
  pc = "return" =>
    \A k \in 1..Len(suffixes) :
      \A cut \in 0..Len(Stem) :
        LET t == SubSeq(Stem, 1, cut)
        IN  (/\ StemIs(t, suffixes[k])
             /\ Extension # <<>>
             /\ splitext_root(t \o Extension) = t)
            => cleaned = clean_game_name(t \o Extension)

\* C15: clean_game_name is not idempotent on its own output: a normalized
\* name that still has an extension or a trailing parenthesized group, as
\* the names of stems with a dot or with two trailing groups have, is
\* changed by a second application.
C15_NotIdempotent ==
  (pc = "return" /\ strip_trailing_paren(splitext_root(cleaned)) # cleaned)
    => clean_game_name(cleaned) # cleaned

\* The filename had two trailing groups, of which the first is left in the
\* normalized name and goes in the second application.
C15_Witness ==
  /\ pc = "return"
  /\ EndsInGroup
  /\ strip_trailing_paren(cleaned) # cleaned
  /\ clean_game_name(cleaned) # cleaned

(***************************************************************************)
(* The claims about output paths, under Spec.                              *)
(***************************************************************************)

\* The file entry run is at, and the artwork row task k was made from.
CurrentChild == cores_data[sys_i].children[child_i]
TaskRow(k) == CHOOSE r \in Elements(game_artwork) : pool[k].url[3] = r.filename

\* ROMs/{systemName}/{stem}-cover.jpg for a box art row and
\* ROMs/{systemName}/{stem}-screenshot.jpg for a screenshot row.
PathWithStem(k, stem) ==
  rom_path(cores_data[sys_i].name,
           stem \o (IF TaskRow(k).type = "boxart" THEN COVER ELSE SCREENSHOT))

\* C11, as the code has it: the artwork of a ROM file is written to
\* ROMs/{systemName}/{stem}-cover.jpg and {stem}-screenshot.jpg where stem
\* is the file name without its extension, underscores, camel case and
\* parenthesized groups kept as they are.
C11_PathsUseFilenameStem ==
  pc = "pool" =>
    \A k \in 1..Len(pool) :
      pool[k].path = PathWithStem(k, splitext_root(CurrentChild.name))

\* C11, as stated: the stem of the output files is the normalized name of
\* the file name, the string used as the lookup key.
C11_PathsUseNormalizedName ==
  pc = "pool" =>
    \A k \in 1..Len(pool) :
      pool[k].path = PathWithStem(k, clean_game_name(CurrentChild.name))

\* A file has been written for a ROM whose normalized name is not its stem.
C11_Witness ==
  /\ pc = "pool"
  /\ clean_game_name(CurrentChild.name) # splitext_root(CurrentChild.name)
  /\ \E k \in 1..Len(pool) :
       /\ pool[k].slept
       /\ pool[k].path \in DOMAIN files
       /\ pool[k].path = PathWithStem(k, splitext_root(CurrentChild.name))

\* The paths the tasks of the pool write to.
PoolPaths == {pool[k].path : k \in 1..Len(pool)}

\* A step that leaves existing artwork alone: a pool is created with at
\* least one task and with none for a path that exists, and a file that is
\* not an output of the pool's tasks keeps its content.
KeepsExisting ==
  /\ (pc = "child" /\ pc' = "pool") =>
       /\ pool' # <<>>
       /\ \A k \in 1..Len(pool') : pool'[k].path \notin DOMAIN files
  /\ \A p \in DOMAIN files \ PoolPaths :
       p \in DOMAIN files' /\ files'[p] = files[p]

\* C16: download_artwork_parallel never overwrites existing artwork: a path
\* that exists when the game is processed gets no task and so no request,
\* its content stays as it is, and no pool is created when every output
\* path of the game exists.
C16_NeverOverwrites == [][KeepsExisting]_vars

\* A pool is at work for a game of which one output, for which the game
\* has an artwork row, existed already and got no task.
C16_Witness ==
  /\ pc = "pool"
  /\ \E game \in {find_game_in_db(CurrentChild.name, system_mapping[cores_data[sys_i].name])} :
       \E r \in Elements(get_artwork_urls(game.id)) :
         \E p \in {download_task(cores_data[sys_i].name, CurrentChild.name, r).path} :
           p \in DOMAIN files \ PoolPaths

\* run is at the head of its loop, at a system that has an entry in
\* system_mapping and has children.
AtMappedSystem ==
  /\ pc = "system"
  /\ sys_i <= Len(cores_data)
  /\ cores_data[sys_i].name \in DOMAIN system_mapping
  /\ Has(cores_data[sys_i], "children")

\* C17: run skips only the systems that have no entry in system_mapping:
\* at a system that has one, whatever the stored id it is mapped to, 0
\* included, run goes on to the system's children instead of printing
\* 'No system ID mapping found' and passing to the next system.
C17_MappedSystemsProcessed ==
  [][AtMappedSystem => (pc' = "child" /\ sys_i' = sys_i)]_vars

(***************************************************************************)
(* The claims about failures and delays, under SpecLive.                   *)
(***************************************************************************)

\* The file entries, as <<system, child>>, of the systems that have an
\* entry in system_mapping.
MappedEntries ==
  UNION {{<<s, c>> : c \in {c \in 1..Len(cores_data[s].children) :
                             cores_data[s].children[c].type = "file"}} :
         s \in {s \in 1..Len(cores_data) :
                  /\ cores_data[s].name \in DOMAIN system_mapping
                  /\ Has(cores_data[s], "children")}}

\* A step of a pool in which no request is made a second time: a task that
\* has been taken up is not queued again, and one that is done stays done.
NoRetry ==
  (pool # <<>> /\ pool' # <<>>) =>
    \A k \in 1..Len(pool) :
      /\ pool[k].status = "running" => pool'[k].status \in {"running", "done"}
      /\ pool[k].status = "done" => pool'[k].status = "done"

\* C12: an unmapped system, an unmatched game and a failed request are
\* passed over without a retry and never end run: no request is made twice
\* for a task, and run, unless interrupted, comes to its end having looked
\* up every file entry of every system that has an entry in system_mapping.
C12_FailuresNeverFatal ==
  /\ [][NoRetry]_vars
  /\ <>(pc = "done" /\ MappedEntries \subseteq looked_up)

\* C14: a fixed delay follows each download and each game: every
\* download_file call that has ended, with the body written or with a
\* failed request, has slept before its worker completed, and every file
\* entry run has gone past was followed by run's sleep.
C14_DelayAfterEachDownload ==
  /\ \A k \in 1..Len(pool) : pool[k].status = "done" => pool[k].slept
  /\ \A e \in looked_up : e \in rested \/ (pc = "pool" /\ e = <<sys_i, child_i>>)

====
